---- MODULE Spec2Model ----
(***************************************************************************)
(* A model of edge_detector.c: a batch of P6 images, one manager thread    *)
(* per input file (manage_image_file), each decoding its file              *)
(* (read_image), running one Laplacian filter pass with a fixed number of  *)
(* worker threads (apply_filters, compute_laplacian_threadfn) and encoding *)
(* the result (write_image); main joins the managers and prints the total  *)
(* of the passes' elapsed times.                                           *)
(*                                                                         *)
(* Files are sequences of bytes (0..255), images are functions from the    *)
(* row-major index y*w+x (0-based, as in the C arrays) to a pixel          *)
(* <<r, g, b>>.                                                            *)
(***************************************************************************)
EXTENDS Integers, Sequences, FiniteSets, TLC

(***************************************************************************)
(* Program constants.                                                      *)
(***************************************************************************)
LAPLACIAN_THREADS == 23
FILTER_WIDTH == 3
FILTER_HEIGHT == 3
RGB_COMPONENT_COLOR == 255
\* sizeof(buff) in read_image: sizeof(char *) * 8 on an LP64 build
BUFF_SIZE == 64

\* the bytes the codec compares against or prints
CH_P == 80
CH_6 == 54
CH_HASH == 35
CH_NL == 10
CH_SP == 32
CH_0 == 48

(***************************************************************************)
(* Bounds of the model.                                                    *)
(***************************************************************************)
\* worker threads per filter pass in SpecPass (the program's
\* LAPLACIAN_THREADS, scaled down; SpecPartition uses the real 23)
Threads == 2
\* input files on the command line (argc - 1)
MaxArgc == 2
\* largest elapsed duration of one pass, in clock ticks
MaxDur == 1
\* largest image height of SpecPartition
MaxPartHeight == 60

(***************************************************************************)
(* Small helpers.                                                          *)
(***************************************************************************)
Min(a, b) == IF a < b THEN a ELSE b

RECURSIVE SumSeq(_)
SumSeq(s) == IF s = <<>> THEN 0 ELSE Head(s) + SumSeq(Tail(s))

RECURSIVE Concat(_)
Concat(ss) == IF ss = <<>> THEN <<>> ELSE Head(ss) \o Concat(Tail(ss))

(***************************************************************************)
(* compute_laplacian_threadfn: the value of one result pixel.              *)
(***************************************************************************)
\* mutant of laplacian: the sharpening kernel, centre weight 9
laplacianSharpen == << <<-1, -1, -1>>,
                       <<-1,  9, -1>>,
                       <<-1, -1, -1>> >>

laplacian == << <<-1, -1, -1>>,
                <<-1,  8, -1>>,
                <<-1, -1, -1>> >>

\* mutant of XCoordinate: the border column is repeated instead of wrapping
XCoordinateEdge(ix, fw, w) ==
    LET v == ix - (FILTER_WIDTH \div 2) + fw
    IN  IF v < 0 THEN 0 ELSE IF v > w - 1 THEN w - 1 ELSE v

\* x_coordinate for image column ix and filter column fw (0-based)
XCoordinate(ix, fw, w) == (ix - (FILTER_WIDTH \div 2) + fw + w) % w

\* mutant of YCoordinate: the border row is repeated instead of wrapping
YCoordinateEdge(iy, fh, h) ==
    LET v == iy - (FILTER_HEIGHT \div 2) + fh
    IN  IF v < 0 THEN 0 ELSE IF v > h - 1 THEN h - 1 ELSE v

\* y_coordinate for image row iy and filter row fh (0-based)
YCoordinate(iy, fh, h) == (iy - (FILTER_HEIGHT \div 2) + fh + h) % h

\* mutant of Truncate: only the values smaller than zero are truncated
TruncateBelowOnly(v) == IF v < 0 THEN 0 ELSE v

\* "Truncate values smaller than zero to zero and larger than 255 to 255"
Truncate(v) == IF v < 0 THEN 0 ELSE IF v > 255 THEN 255 ELSE v

\* the accumulator of channel c (1 = r, 2 = g, 3 = b) after the two filter loops
Accumulate(image, w, h, ix, iy, c) ==
    SumSeq([n \in 1..(FILTER_WIDTH * FILTER_HEIGHT) |->
        LET fw == (n - 1) \div FILTER_HEIGHT
            fh == (n - 1) % FILTER_HEIGHT
        IN  image[YCoordinate(iy, fh, h) * w + XCoordinate(ix, fw, w)][c]
              * laplacian[fh + 1][fw + 1]])

\* lines 99-101: the int is converted to the unsigned char of the pixel
Narrow(v) == v % (RGB_COMPONENT_COLOR + 1)

\* the pixel stored at result[iy * w + ix]
FilteredPixel(image, w, h, ix, iy) ==
    [c \in 1..3 |-> Narrow(Truncate(Accumulate(image, w, h, ix, iy, c)))]

\* mutant of ResultIndex: column-major instead of row-major
ResultIndexColumnMajor(w, ix, iy) == ix * w + iy

\* the index a worker stores the pixel of column ix, row iy at
ResultIndex(w, ix, iy) == iy * w + ix

(***************************************************************************)
(* apply_filters: the partition of the rows among n workers.               *)
(***************************************************************************)
Work(h, n) == h \div n

ParamStart(h, n, i) == i * Work(h, n)

\* mutant of ParamSize: the last worker does not take the rest
ParamSizeEven(h, n, i) == Work(h, n)

ParamSize(h, n, i) ==
    IF i = n - 1 THEN h - ParamStart(h, n, i) ELSE Work(h, n)

MakeParam(h, n, i) == [start |-> ParamStart(h, n, i), size |-> ParamSize(h, n, i)]

(***************************************************************************)
(* write_image: the bytes written to the output file.                      *)
(***************************************************************************)
\* printf's %lu and %d of a number >= 0
RECURSIVE Decimal(_)
Decimal(n) == IF n < 10 THEN <<CH_0 + n>> ELSE Decimal(n \div 10) \o <<CH_0 + (n % 10)>>

\* fwrite(image, 3 * width, height, fp): the pixels' bytes in row-major order
PixelBytes(image, width, height) ==
    Concat([i \in 1..(width * height) |-> image[i - 1]])

\* mutant of WriteImageBytes: no newline after the max value
WriteImageBytesNoNewline(image, width, height) ==
    <<CH_P, CH_6, CH_NL>>
    \o Decimal(width) \o <<CH_SP>> \o Decimal(height) \o <<CH_NL>>
    \o Decimal(RGB_COMPONENT_COLOR)
    \o PixelBytes(image, width, height)

WriteImageBytes(image, width, height) ==
    <<CH_P, CH_6, CH_NL>>
    \o Decimal(width) \o <<CH_SP>> \o Decimal(height) \o <<CH_NL>>
    \o Decimal(RGB_COMPONENT_COLOR) \o <<CH_NL>>
    \o PixelBytes(image, width, height)

(***************************************************************************)
(* read_image: parsing the bytes of the input file.  Positions are 1-based *)
(* indexes of the next byte to read; Len(b) + 1 is end of file.            *)
(***************************************************************************)
IsSpace(c) == c \in {9, 10, 11, 12, 13, 32}
IsDigit(c) == c \in CH_0..(CH_0 + 9)

\* the position of the first newline at or after p, 0 when there is none
RECURSIVE FirstNewline(_, _)
FirstNewline(b, p) ==
    IF p > Len(b) THEN 0
    ELSE IF b[p] = CH_NL THEN p ELSE FirstNewline(b, p + 1)

\* fgets(buff, sizeof(buff), fp): the position of the last byte read
\* (0 at end of file: fgets returns NULL)
FgetsEnd(b) ==
    LET nl == FirstNewline(b, 1)
    IN  IF nl # 0 /\ nl <= BUFF_SIZE - 1 THEN nl ELSE Min(Len(b), BUFF_SIZE - 1)

\* buff[0] == 'P' && buff[1] == '6' of the line read by fgets
MarkerOk(b) == /\ FgetsEnd(b) >= 2
               /\ b[1] = CH_P
               /\ b[2] = CH_6

\* the comment loop started at p: the position of the byte given back by
\* ungetc, or -1 when the inner loop meets end of file (getc returns EOF for
\* ever and never '\n')
RECURSIVE SkipComments(_, _)
SkipComments(b, p) ==
    IF p <= Len(b) /\ b[p] = CH_HASH
    THEN LET nl == FirstNewline(b, p + 1)
         IN  IF nl = 0 THEN -1 ELSE SkipComments(b, nl + 1)
    ELSE p

RECURSIVE SkipSpace(_, _)
SkipSpace(b, p) ==
    IF p <= Len(b) /\ IsSpace(b[p]) THEN SkipSpace(b, p + 1) ELSE p

RECURSIVE DigitsEnd(_, _)
DigitsEnd(b, p) ==
    IF p <= Len(b) /\ IsDigit(b[p]) THEN DigitsEnd(b, p + 1) ELSE p

\* the value of the digits b[p..q-1]
RECURSIVE DigitsValue(_, _, _)
DigitsValue(b, p, q) ==
    IF q <= p THEN 0 ELSE DigitsValue(b, p, q - 1) * 10 + (b[q - 1] - CH_0)

\* one %ld or %d conversion of fscanf at p (unsigned input only: the input
\* files of the model hold no sign characters)
ScanNumber(b, p) ==
    LET s == SkipSpace(b, p)
        e == DigitsEnd(b, s)
    IN  [ok |-> e > s, val |-> DigitsValue(b, s, e), next |-> e]

\* mutant of PixelsRead: the loop stops one pixel early
PixelsReadOneLess(b, p, width, height) ==
    Min(width * height, (Len(b) - p + 1) \div 3) - 1

\* the number of complete 3-byte pixels the fread loop reads from p
PixelsRead(b, p, width, height) == Min(width * height, (Len(b) - p + 1) \div 3)

NoDecode(st) == [status |-> st, width |-> 0, height |-> 0, nread |-> 0, pixels |-> <<>>]

\* the outcome of read_image on a file: status "ok" with the header values,
\* the number of pixels read and those pixels, or the error that ends the
\* thread, or "Hang" when one of the two skip loops never ends
ReadImage(file) ==
    IF ~file.exists THEN NoDecode("IOError")
    ELSE LET b == file.bytes IN
    IF ~MarkerOk(b) THEN NoDecode("FormatError")
    ELSE LET p1 == SkipComments(b, FgetsEnd(b) + 1) IN
    IF p1 = -1 THEN NoDecode("Hang")
    ELSE LET nw == ScanNumber(b, p1)
             nh == ScanNumber(b, nw.next) IN
    IF ~nw.ok \/ ~nh.ok THEN NoDecode("SizeError")
    ELSE LET nm == ScanNumber(b, nh.next) IN
    IF ~nm.ok \/ nm.val # RGB_COMPONENT_COLOR THEN NoDecode("RangeError")
    ELSE LET nl == FirstNewline(b, nm.next) IN
    IF nl = 0 THEN NoDecode("Hang")
    ELSE LET k == PixelsRead(b, nl + 1, nw.val, nh.val)
         IN  [status |-> "ok", width |-> nw.val, height |-> nh.val, nread |-> k,
              pixels |-> [i \in 0..(k - 1) |->
                            <<b[nl + 1 + 3 * i], b[nl + 2 + 3 * i], b[nl + 3 + 3 * i]>>]]

(***************************************************************************)
(* main: the output name of the file at 0-based position i,                *)
(* snprintf(output_file_name, 20, "laplacian%d.ppm", i + 1).               *)
(***************************************************************************)
NAME_SIZE == 20

\* mutant of OutputName: the loop index is printed, not i + 1
OutputNameZeroBased(i) ==
    <<108, 97, 112, 108, 97, 99, 105, 97, 110>> \o Decimal(i) \o <<46, 112, 112, 109>>

OutputName(i) ==
    LET full == <<108, 97, 112, 108, 97, 99, 105, 97, 110>> \o Decimal(i + 1)
                    \o <<46, 112, 112, 109>>
    IN  SubSeq(full, 1, Min(Len(full), NAME_SIZE - 1))

(***************************************************************************)
(* The input files of the model.                                           *)
(***************************************************************************)
ColourA == <<0, 10, 255>>
ColourB == <<255, 20, 0>>
Palette == {ColourA, ColourB}

Other(c) == IF c = ColourA THEN ColourB ELSE ColourA

\* images of one colour, images with one pixel of the other colour, and
\* checkerboards
Uniform(w, h, c) == [i \in 0..(w * h - 1) |-> c]
Spot(w, h, c, p) == [i \in 0..(w * h - 1) |-> IF i = p THEN Other(c) ELSE c]
Checker(w, h, c) ==
    [i \in 0..(w * h - 1) |-> IF ((i \div w) + (i % w)) % 2 = 0 THEN c ELSE Other(c)]

Images(w, h) ==
    {Uniform(w, h, c) : c \in Palette}
    \cup {Spot(w, h, c, p) : c \in Palette, p \in 0..(w * h - 1)}
    \cup {Checker(w, h, c) : c \in Palette}

OnDisk(b) == [exists |-> TRUE, bytes |-> b]
Missing == [exists |-> FALSE, bytes |-> <<>>]

\* well-formed files: the P6 encoding of the images up to maxw x maxh
GoodFiles(maxw, maxh) ==
    UNION {{OnDisk(WriteImageBytes(im, w, h)) : im \in Images(w, h)} :
              w \in 1..maxw, h \in 1..maxh}

Magic == <<CH_P, CH_6, CH_NL>>
SizeLine(w, h) == Decimal(w) \o <<CH_SP>> \o Decimal(h) \o <<CH_NL>>
MaxLine(v) == Decimal(v) \o <<CH_NL>>

\* "P6\n1 1\n255\n" and one pixel
Tiny == OnDisk(WriteImageBytes(Uniform(1, 1, ColourB), 1, 1))
\* a 1 x 1 image whose pixel bytes are '#', ' ' and '\n'
TextImage == Uniform(1, 1, <<CH_HASH, CH_SP, CH_NL>>)
TextLike == OnDisk(WriteImageBytes(TextImage, 1, 1))
\* a comment line "#c\n" between the marker and the size
Commented == OnDisk(Magic \o <<CH_HASH, 99, CH_NL>> \o SizeLine(1, 1)
                        \o MaxLine(RGB_COMPONENT_COLOR) \o ColourB)
\* marker "P5"
BadMarker == OnDisk(<<CH_P, CH_0 + 5, CH_NL>> \o SizeLine(1, 1)
                        \o MaxLine(RGB_COMPONENT_COLOR) \o ColourB)
\* size line "x 1"
BadSize == OnDisk(Magic \o <<120, CH_SP>> \o Decimal(1) \o <<CH_NL>>
                        \o MaxLine(RGB_COMPONENT_COLOR) \o ColourB)
\* max value 254
BadMax == OnDisk(Magic \o SizeLine(1, 1) \o MaxLine(RGB_COMPONENT_COLOR - 1) \o ColourB)
\* the file ends inside a comment line
EofInComment == OnDisk(Magic \o <<CH_HASH, 99>>)
\* the file ends right after the max value, with no newline
EofAfterMax == OnDisk(Magic \o SizeLine(1, 1) \o Decimal(RGB_COMPONENT_COLOR))
\* a 1 x 2 image with the pixel data of one pixel only
ShortData == OnDisk(Magic \o SizeLine(1, 2) \o MaxLine(RGB_COMPONENT_COLOR) \o ColourB)

\* files whose header announces w x h pixels and whose data are the pixels px,
\* fewer than w * h, and the bytes extra, fewer than 3
ShortFile(w, h, px, extra) ==
    OnDisk(Magic \o SizeLine(w, h) \o MaxLine(RGB_COMPONENT_COLOR) \o Concat(px) \o extra)

ShortShapes ==
    { [w |-> 1, h |-> 2, px |-> <<ColourB>>, extra |-> <<>>],
      [w |-> 2, h |-> 1, px |-> <<ColourA>>, extra |-> <<CH_NL, CH_HASH>>],
      [w |-> 1, h |-> 1, px |-> <<>>, extra |-> <<CH_0>>] }

ShortFiles == {ShortFile(z.w, z.h, z.px, z.extra) : z \in ShortShapes}

BadFiles == {Missing, BadMarker, BadSize, BadMax, EofInComment, EofAfterMax}

\* largest image of SpecPass
MaxW == 3
MaxH == 3

\* the files of a batch of one file, of a batch of several files (Spec) and
\* of a single pass (SpecPass)
SoloFiles == {Tiny} \cup BadFiles
BatchFiles == {Tiny, BadMarker, EofInComment}
PassFiles ==
    GoodFiles(MaxW, MaxH) \cup {TextLike, Commented, ShortData} \cup ShortFiles \cup BadFiles

(***************************************************************************)
(* The state.                                                              *)
(***************************************************************************)
VARIABLES
    \* the environment: the command line and the file system
    argc,               \* number of input files (argc after argc--)
    files,              \* files[m]: the m-th input file, m in 1..argc
    outOpen,            \* outOpen[m]: whether fopen of the m-th output succeeds
                        \* (at most one output of a batch cannot be opened)
    nthreads,           \* the worker threads per pass the program is built with
    decoded,            \* decoded[m]: what read_image finds in files[m], ReadImage
                        \* of the file, computed once
    \* main
    mainPc,             \* main's position
    mainI,              \* main's loop index i
    output_file_name,   \* file_name[m - 1].output_file_name (<<>>: zeroed by calloc)
    printed,            \* the totals printed by main's printf
    \* shared
    total_elapsed_time,
    mutex_a, mutex_b, mutex_c,   \* the set of threads holding the mutex
    crashed,            \* the process was killed by a fault
    \* manager thread m (manage_image_file and the functions it calls)
    tpc,                \* position ("none": not created)
    derr,               \* the decode error that ended the thread, or "none"
    width, height, img, \* what read_image returned
    result,             \* apply_filters' result buffer
    params,             \* apply_filters' params[i]
    ai,                 \* apply_filters' loop index i
    dur,                \* the elapsed time apply_filters measured
    tmp,                \* the value of *elapsedTime loaded by +=
    passes,             \* number of filter passes apply_filters completed
    fp,                 \* write_image's fp: "unset", "open", "NULL", "closed"
    fname,              \* write_image's filename, as passed to fopen (<<>>: not yet)
    outfile,            \* the m-th output file
    nullUse,            \* write_image passed a NULL fp to fprintf
    \* worker k of manager m (compute_laplacian_threadfn)
    wpc,                \* "none", "run", "done"
    wx, wy,             \* iteratorImageWidth, iteratorImageHeight
    writes,             \* writes[m][idx]: the stores to result[idx], in order, each with
                        \* its worker k and the column x and row y it was computing
    badWrite,           \* a worker stored outside the result buffer
    \* SpecPartition: the partition loop alone
    ph, pi, pparams,
    \* SpecCreate
    badJoin             \* pthread_join was called with a t[i] no pthread_create set

envVars == <<argc, files, outOpen, nthreads, decoded>>
mainVars == <<mainPc, mainI, output_file_name, printed>>
lockVars == <<mutex_a, mutex_b, mutex_c>>
decVars == <<derr, width, height, img>>
afVars == <<result, params, ai, dur, tmp, passes>>
wiVars == <<fp, fname, outfile, nullUse>>
wrkVars == <<wpc, wx, wy, writes, badWrite>>
partVars == <<ph, pi, pparams>>
vars == <<envVars, mainVars, lockVars, total_elapsed_time, crashed, tpc,
          decVars, afVars, wiVars, wrkVars, partVars, badJoin>>

MainTid == 0
Managers == 1..argc
Workers == 0..(nthreads - 1)
Unwritten == <<-1, -1, -1>>
NoFile == [exists |-> FALSE, bytes |-> <<>>]

\* the state after construction, for a command line of n files drawn from
\* fileset and a program built with nt worker threads per pass
InitProgram(n, fileset, nt) ==
    /\ argc = n
    /\ nthreads = nt
    /\ files \in [1..argc -> fileset]
    /\ outOpen \in [1..argc -> BOOLEAN]
    /\ Cardinality({m \in 1..argc : ~outOpen[m]}) <= 1
    /\ decoded = [m \in 1..argc |-> ReadImage(files[m])]
    /\ mainPc = "m_trylock"
    /\ mainI = 0
    /\ output_file_name = [m \in 1..argc |-> <<>>]
    /\ printed = <<>>
    /\ total_elapsed_time = 0
    /\ mutex_a = {} /\ mutex_b = {} /\ mutex_c = {}
    /\ crashed = FALSE
    /\ tpc = [m \in 1..argc |-> "none"]
    /\ derr = [m \in 1..argc |-> "none"]
    /\ width = [m \in 1..argc |-> 0]
    /\ height = [m \in 1..argc |-> 0]
    /\ img = [m \in 1..argc |-> <<>>]
    /\ result = [m \in 1..argc |-> <<>>]
    /\ params = [m \in 1..argc |-> [k \in Workers |-> [start |-> 0, size |-> 0]]]
    /\ ai = [m \in 1..argc |-> 0]
    /\ dur = [m \in 1..argc |-> 0]
    /\ tmp = [m \in 1..argc |-> 0]
    /\ passes = [m \in 1..argc |-> 0]
    /\ fp = [m \in 1..argc |-> "unset"]
    /\ fname = [m \in 1..argc |-> <<>>]
    /\ outfile = [m \in 1..argc |-> NoFile]
    /\ nullUse = [m \in 1..argc |-> FALSE]
    /\ wpc = [m \in 1..argc |-> [k \in Workers |-> "none"]]
    /\ wx = [m \in 1..argc |-> [k \in Workers |-> 0]]
    /\ wy = [m \in 1..argc |-> [k \in Workers |-> 0]]
    /\ writes = [m \in 1..argc |-> <<>>]
    /\ badWrite = FALSE
    /\ badJoin = FALSE

\* a batch; each pass has one worker, which takes every row
Init ==
    /\ \E n \in 1..MaxArgc :
          InitProgram(n, IF n = 1 THEN SoloFiles ELSE BatchFiles, 1)
    /\ ph = 0 /\ pi = 0 /\ pparams = <<>>

\* one file; its pass has Threads workers
InitPass ==
    /\ InitProgram(1, PassFiles, Threads)
    /\ ph = 0 /\ pi = 0 /\ pparams = <<>>

(***************************************************************************)
(* main.                                                                   *)
(***************************************************************************)
\* lines 312-316: pthread_mutex_trylock(&mutex_b), its result ignored, then
\* the names of file i
MainTrylock ==
    /\ ~crashed /\ mainPc = "m_trylock"
    /\ mutex_b' = IF mutex_b = {} THEN {MainTid} ELSE mutex_b
    /\ output_file_name' = [output_file_name EXCEPT ![mainI + 1] = OutputName(mainI)]
    /\ mainPc' = "m_unlock"
    /\ UNCHANGED <<envVars, mainI, printed, mutex_a, mutex_c,
                   total_elapsed_time, crashed, tpc, decVars, afVars, wiVars,
                   wrkVars, partVars, badJoin>>

\* line 317: pthread_mutex_unlock(&mutex_b)
MainUnlock ==
    /\ ~crashed /\ mainPc = "m_unlock"
    /\ mutex_b' = mutex_b \ {MainTid}
    /\ mainPc' = "m_create"
    /\ UNCHANGED <<envVars, mainI, output_file_name, printed, mutex_a, mutex_c,
                   total_elapsed_time, crashed, tpc, decVars, afVars, wiVars,
                   wrkVars, partVars, badJoin>>

\* line 319: pthread_create of the manager of file i, and the loop's i++
MainCreate ==
    /\ ~crashed /\ mainPc = "m_create"
    /\ tpc' = [tpc EXCEPT ![mainI + 1] = "read"]
    /\ IF mainI + 1 < argc
       THEN mainI' = mainI + 1 /\ mainPc' = "m_trylock"
       ELSE mainI' = 0 /\ mainPc' = "m_join"
    /\ UNCHANGED <<envVars, output_file_name, printed, lockVars, total_elapsed_time,
                   crashed, decVars, afVars, wiVars, wrkVars, partVars, badJoin>>

\* a manager thread has ended: it returned or called pthread_exit
Ended(m) == tpc[m] \in {"done", "exited"}

\* mutant of MainJoinReturns: the join does not wait for the manager
MainJoinReturnsAtOnce(m) == TRUE

\* whether main's pthread_join(t[i]) returns
MainJoinReturns(m) == Ended(m)

\* lines 324-327: pthread_join(t[i], NULL) and the loop's i++
MainJoin ==
    /\ ~crashed /\ mainPc = "m_join"
    /\ MainJoinReturns(mainI + 1)
    /\ IF mainI + 1 < argc
       THEN mainI' = mainI + 1 /\ mainPc' = "m_join"
       ELSE mainI' = 0 /\ mainPc' = "m_report"
    /\ UNCHANGED <<envVars, output_file_name, printed, lockVars, total_elapsed_time,
                   crashed, tpc, decVars, afVars, wiVars, wrkVars, partVars, badJoin>>

\* lines 328-330: free(file_name), printf of the total, return
MainReport ==
    /\ ~crashed /\ mainPc = "m_report"
    /\ printed' = Append(printed, total_elapsed_time)
    /\ mainPc' = "m_done"
    /\ UNCHANGED <<envVars, mainI, output_file_name, lockVars, total_elapsed_time,
                   crashed, tpc, decVars, afVars, wiVars, wrkVars, partVars, badJoin>>

(***************************************************************************)
(* manage_image_file, thread m: read_image.                                *)
(***************************************************************************)
DecodeErrors == {"IOError", "FormatError", "SizeError", "RangeError"}

\* lines 278, 208-262: read_image returns the image.  The buffer is malloc'ed
\* and only its first nread pixels are assigned: the others hold whatever the
\* allocator left there.
\* lines 280, 115-120: apply_filters is entered: the start time, the result
\* buffer (malloc: nothing written yet), work.
ReadImageOk(m) ==
    /\ ~crashed /\ tpc[m] = "read"
    /\ LET r == decoded[m]
           n == r.width * r.height
       IN  /\ r.status = "ok"
           /\ width' = [width EXCEPT ![m] = r.width]
           /\ height' = [height EXCEPT ![m] = r.height]
           /\ \E g \in [r.nread..(n - 1) -> Palette] :
                 img' = [img EXCEPT ![m] =
                            [i \in 0..(n - 1) |-> IF i < r.nread THEN r.pixels[i] ELSE g[i]]]
           /\ result' = [result EXCEPT ![m] = [i \in 0..(n - 1) |-> Unwritten]]
           /\ writes' = [writes EXCEPT ![m] = [i \in 0..(n - 1) |-> <<>>]]
    /\ ai' = [ai EXCEPT ![m] = 0]
    /\ tpc' = [tpc EXCEPT ![m] = "af_lock_a"]
    /\ UNCHANGED <<envVars, mainVars, lockVars, total_elapsed_time, crashed, derr,
                   params, dur, tmp, passes, wiVars, wpc, wx, wy, badWrite, partVars, badJoin>>

\* mutant of ReadImageFail: the error is printed and read_image returns an
\* empty image to its caller, which goes on
ReadImageFailReturns(m) ==
    /\ ~crashed /\ tpc[m] = "read"
    /\ decoded[m].status \in DecodeErrors
    /\ derr' = [derr EXCEPT ![m] = decoded[m].status]
    /\ tpc' = [tpc EXCEPT ![m] = "af_lock_a"]
    /\ UNCHANGED <<envVars, mainVars, lockVars, total_elapsed_time, crashed,
                   width, height, img, afVars, wiVars, wrkVars, partVars, badJoin>>

\* lines 209-213, 216-220, 232-236, 239-243: the error is printed and
\* pthread_exit(0) ends the calling thread
ReadImageFail(m) ==
    /\ ~crashed /\ tpc[m] = "read"
    /\ decoded[m].status \in DecodeErrors
    /\ derr' = [derr EXCEPT ![m] = decoded[m].status]
    /\ tpc' = [tpc EXCEPT ![m] = "exited"]
    /\ UNCHANGED <<envVars, mainVars, lockVars, total_elapsed_time, crashed,
                   width, height, img, afVars, wiVars, wrkVars, partVars, badJoin>>

\* lines 226, 245: at end of file getc returns EOF, never '\n': the thread
\* stays in the loop for ever ("spin" has no way out)
ReadImageHang(m) ==
    /\ ~crashed /\ tpc[m] = "read"
    /\ decoded[m].status = "Hang"
    /\ tpc' = [tpc EXCEPT ![m] = "spin"]
    /\ UNCHANGED <<envVars, mainVars, lockVars, total_elapsed_time, crashed,
                   decVars, afVars, wiVars, wrkVars, partVars, badJoin>>

(***************************************************************************)
(* apply_filters, called by thread m.                                      *)
(***************************************************************************)
\* pthread_mutex_lock returns when no thread holds the mutex
CanLock(mtx) == mtx = {}

\* lines 124-140: params[i] is filled in, then pthread_mutex_lock(&mutex_a)
AfLockA(m) ==
    /\ ~crashed /\ tpc[m] = "af_lock_a"
    /\ CanLock(mutex_a)
    /\ params' = [params EXCEPT ![m][ai[m]] = MakeParam(height[m], nthreads, ai[m])]
    /\ mutex_a' = {m}
    /\ tpc' = [tpc EXCEPT ![m] = "af_create"]
    /\ UNCHANGED <<envVars, mainVars, mutex_b, mutex_c, total_elapsed_time, crashed,
                   decVars, result, ai, dur, tmp, passes, wiVars, wrkVars, partVars, badJoin>>

\* line 141: pthread_create starts worker i at the head of its loops
AfCreate(m) ==
    /\ ~crashed /\ tpc[m] = "af_create"
    /\ wpc' = [wpc EXCEPT ![m][ai[m]] = "run"]
    /\ wx' = [wx EXCEPT ![m][ai[m]] = 0]
    /\ wy' = [wy EXCEPT ![m][ai[m]] = params[m][ai[m]].start]
    /\ tpc' = [tpc EXCEPT ![m] = "af_unlock_a"]
    /\ UNCHANGED <<envVars, mainVars, lockVars, total_elapsed_time, crashed,
                   decVars, afVars, wiVars, writes, badWrite, partVars, badJoin>>

\* mutant of AfUnlockA: mutex_a is not unlocked
AfUnlockAKeeps(m) ==
    /\ ~crashed /\ tpc[m] = "af_unlock_a"
    /\ IF ai[m] + 1 < nthreads
       THEN ai' = [ai EXCEPT ![m] = ai[m] + 1] /\ tpc' = [tpc EXCEPT ![m] = "af_lock_a"]
       ELSE ai' = [ai EXCEPT ![m] = 0] /\ tpc' = [tpc EXCEPT ![m] = "af_join"]
    /\ UNCHANGED <<envVars, mainVars, lockVars, total_elapsed_time, crashed,
                   decVars, result, params, dur, tmp, passes, wiVars, wrkVars, partVars, badJoin>>

\* line 145 and the loop's i++
AfUnlockA(m) ==
    /\ ~crashed /\ tpc[m] = "af_unlock_a"
    /\ mutex_a' = mutex_a \ {m}
    /\ IF ai[m] + 1 < nthreads
       THEN ai' = [ai EXCEPT ![m] = ai[m] + 1] /\ tpc' = [tpc EXCEPT ![m] = "af_lock_a"]
       ELSE ai' = [ai EXCEPT ![m] = 0] /\ tpc' = [tpc EXCEPT ![m] = "af_join"]
    /\ UNCHANGED <<envVars, mainVars, mutex_b, mutex_c, total_elapsed_time, crashed,
                   decVars, result, params, dur, tmp, passes, wiVars, wrkVars, partVars, badJoin>>

\* mutant of WorkerJoined: the join does not wait for the worker
WorkerJoinedAtOnce(m, k) == TRUE

\* whether pthread_join(t[k]) of apply_filters returns
WorkerJoined(m, k) == wpc[m][k] = "done"

\* lines 149-152: pthread_join(t[i], NULL) and the loop's i++
AfJoin(m) ==
    /\ ~crashed /\ tpc[m] = "af_join"
    /\ WorkerJoined(m, ai[m])
    /\ IF ai[m] + 1 < nthreads
       THEN ai' = [ai EXCEPT ![m] = ai[m] + 1] /\ tpc' = tpc
       ELSE ai' = [ai EXCEPT ![m] = 0] /\ tpc' = [tpc EXCEPT ![m] = "af_lock_c"]
    /\ UNCHANGED <<envVars, mainVars, lockVars, total_elapsed_time, crashed,
                   decVars, result, params, dur, tmp, passes, wiVars, wrkVars, partVars, badJoin>>

\* mutant of AfLockC: the elapsed time is taken and mutex_c is not locked
AfLockCNoLock(m) ==
    /\ ~crashed /\ tpc[m] = "af_lock_c"
    /\ \E d \in 0..MaxDur : dur' = [dur EXCEPT ![m] = d]
    /\ tpc' = [tpc EXCEPT ![m] = "af_load"]
    /\ UNCHANGED <<envVars, mainVars, lockVars, total_elapsed_time, crashed,
                   decVars, result, params, ai, tmp, passes, wiVars, wrkVars, partVars, badJoin>>

\* lines 154-155: the end time, hence the elapsed time, then
\* pthread_mutex_lock(&mutex_c)
AfLockC(m) ==
    /\ ~crashed /\ tpc[m] = "af_lock_c"
    /\ CanLock(mutex_c)
    /\ \E d \in 0..MaxDur : dur' = [dur EXCEPT ![m] = d]
    /\ mutex_c' = {m}
    /\ tpc' = [tpc EXCEPT ![m] = "af_load"]
    /\ UNCHANGED <<envVars, mainVars, mutex_a, mutex_b, total_elapsed_time, crashed,
                   decVars, result, params, ai, tmp, passes, wiVars, wrkVars, partVars, badJoin>>

\* line 157, first half: the load of *elapsedTime
AfLoad(m) ==
    /\ ~crashed /\ tpc[m] = "af_load"
    /\ tmp' = [tmp EXCEPT ![m] = total_elapsed_time]
    /\ tpc' = [tpc EXCEPT ![m] = "af_store"]
    /\ UNCHANGED <<envVars, mainVars, lockVars, total_elapsed_time, crashed,
                   decVars, result, params, ai, dur, passes, wiVars, wrkVars, partVars, badJoin>>

\* line 157, second half: the store of the sum (the loaded value is dead
\* afterwards)
AfStore(m) ==
    /\ ~crashed /\ tpc[m] = "af_store"
    /\ total_elapsed_time' = tmp[m] + dur[m]
    /\ tmp' = [tmp EXCEPT ![m] = 0]
    /\ tpc' = [tpc EXCEPT ![m] = "af_unlock_c"]
    /\ UNCHANGED <<envVars, mainVars, lockVars, crashed, decVars, result, params,
                   ai, dur, passes, wiVars, wrkVars, partVars, badJoin>>

\* lines 158-159, 280-282: pthread_mutex_unlock(&mutex_c), the result is
\* returned to manage_image_file, which finds it non-NULL
AfUnlockC(m) ==
    /\ ~crashed /\ tpc[m] = "af_unlock_c"
    /\ mutex_c' = mutex_c \ {m}
    /\ passes' = [passes EXCEPT ![m] = passes[m] + 1]
    /\ tpc' = [tpc EXCEPT ![m] = "wi_open"]
    /\ UNCHANGED <<envVars, mainVars, mutex_a, mutex_b, total_elapsed_time, crashed,
                   decVars, result, params, ai, dur, tmp, wiVars, wrkVars, partVars, badJoin>>

(***************************************************************************)
(* write_image, called by thread m.                                        *)
(***************************************************************************)
\* line 284: write_image is called with file_name->output_file_name.
\* lines 172-176: fopen(filename, "wb") creates or empties the file; when it
\* fails the error is printed and the function goes on with fp == NULL
WiOpen(m) ==
    /\ ~crashed /\ tpc[m] = "wi_open"
    /\ fname' = [fname EXCEPT ![m] = output_file_name[m]]
    /\ IF outOpen[m]
       THEN /\ fp' = [fp EXCEPT ![m] = "open"]
            /\ outfile' = [outfile EXCEPT ![m] = OnDisk(<<>>)]
       ELSE /\ fp' = [fp EXCEPT ![m] = "NULL"]
            /\ outfile' = outfile
    /\ tpc' = [tpc EXCEPT ![m] = "wi_write"]
    /\ UNCHANGED <<envVars, mainVars, lockVars, total_elapsed_time, crashed,
                   decVars, afVars, nullUse, wrkVars, partVars, badJoin>>

\* lines 178-183 with an open file: the header, the pixels, fclose
WiWrite(m) ==
    /\ ~crashed /\ tpc[m] = "wi_write" /\ fp[m] = "open"
    /\ outfile' = [outfile EXCEPT ![m] =
                      OnDisk(WriteImageBytes(result[m], width[m], height[m]))]
    /\ fp' = [fp EXCEPT ![m] = "closed"]
    /\ tpc' = [tpc EXCEPT ![m] = "free"]
    /\ UNCHANGED <<envVars, mainVars, lockVars, total_elapsed_time, crashed,
                   decVars, afVars, fname, nullUse, wrkVars, partVars, badJoin>>

\* lines 178-183 with fp == NULL: fprintf, fwrite and fclose on a null
\* stream are undefined; the process is killed by the fault, or the calls
\* fail and write_image returns
WiWriteNull(m) ==
    /\ ~crashed /\ tpc[m] = "wi_write" /\ fp[m] = "NULL"
    /\ nullUse' = [nullUse EXCEPT ![m] = TRUE]
    /\ \/ crashed' = TRUE /\ tpc' = tpc
       \/ crashed' = FALSE /\ tpc' = [tpc EXCEPT ![m] = "free"]
    /\ UNCHANGED <<envVars, mainVars, lockVars, total_elapsed_time,
                   decVars, afVars, fp, fname, outfile, wrkVars, partVars, badJoin>>

\* lines 286-289: free(result), free(img), return NULL
MgrFree(m) ==
    /\ ~crashed /\ tpc[m] = "free"
    /\ tpc' = [tpc EXCEPT ![m] = "done"]
    /\ UNCHANGED <<envVars, mainVars, lockVars, total_elapsed_time, crashed,
                   decVars, afVars, wiVars, wrkVars, partVars, badJoin>>

(***************************************************************************)
(* compute_laplacian_threadfn, worker k of thread m's pass.                *)
(***************************************************************************)
\* the loops have a pixel left: iteratorImageWidth < w with a non-empty inner
\* loop (an empty row range makes every inner loop empty)
WorkerHasPixel(m, k) ==
    /\ wx[m][k] < width[m]
    /\ params[m][k].size > 0

\* lines 73-102: one iteration of the inner loop over the rows, storing the
\* pixel of column wx, row wy, then the loop increments
WorkerStep(m, k) ==
    /\ ~crashed /\ wpc[m][k] = "run"
    /\ WorkerHasPixel(m, k)
    /\ LET ix == wx[m][k]
           iy == wy[m][k]
           idx == ResultIndex(width[m], ix, iy)
           last == params[m][k].start + params[m][k].size
       IN  /\ IF idx \in DOMAIN result[m]
              THEN /\ result' = [result EXCEPT ![m][idx] =
                                    FilteredPixel(img[m], width[m], height[m], ix, iy)]
                   /\ writes' = [writes EXCEPT ![m][idx] =
                                    Append(@, [k |-> k, x |-> ix, y |-> iy])]
                   /\ badWrite' = badWrite
              ELSE /\ badWrite' = TRUE
                   /\ UNCHANGED <<result, writes>>
           /\ IF iy + 1 < last
              THEN /\ wy' = [wy EXCEPT ![m][k] = iy + 1]
                   /\ wx' = wx
              ELSE /\ wy' = [wy EXCEPT ![m][k] = params[m][k].start]
                   /\ wx' = [wx EXCEPT ![m][k] = ix + 1]
    /\ UNCHANGED <<envVars, mainVars, lockVars, total_elapsed_time, crashed, tpc,
                   decVars, params, ai, dur, tmp, passes, wiVars, wpc, partVars, badJoin>>

\* line 104: the loops are over, return NULL
WorkerReturn(m, k) ==
    /\ ~crashed /\ wpc[m][k] = "run"
    /\ ~WorkerHasPixel(m, k)
    /\ wpc' = [wpc EXCEPT ![m][k] = "done"]
    /\ UNCHANGED <<envVars, mainVars, lockVars, total_elapsed_time, crashed, tpc,
                   decVars, afVars, wiVars, wx, wy, writes, badWrite, partVars, badJoin>>

(***************************************************************************)
(* pthread_create fails (EAGAIN: no resources for another thread).         *)
(***************************************************************************)
\* lines 141-144: pthread_create of worker i fails; the error is printed,
\* t[i] keeps the indeterminate value of the uninitialized array
AfCreateFails(m) ==
    /\ ~crashed /\ tpc[m] = "af_create"
    /\ tpc' = [tpc EXCEPT ![m] = "af_unlock_a"]
    /\ UNCHANGED <<envVars, mainVars, lockVars, total_elapsed_time, crashed,
                   decVars, afVars, wiVars, wrkVars, partVars, badJoin>>

\* line 151 for a worker never created (all creates come before the first
\* join): pthread_join of an indeterminate pthread_t is undefined; the call
\* returns an error at once, or the process is killed, or the call blocks
\* for ever
AfJoinUncreated(m) ==
    /\ ~crashed /\ tpc[m] = "af_join"
    /\ wpc[m][ai[m]] = "none"
    /\ badJoin' = TRUE
    /\ \/ /\ crashed' = FALSE
          /\ IF ai[m] + 1 < nthreads
             THEN ai' = [ai EXCEPT ![m] = ai[m] + 1] /\ tpc' = tpc
             ELSE ai' = [ai EXCEPT ![m] = 0] /\ tpc' = [tpc EXCEPT ![m] = "af_lock_c"]
       \/ crashed' = TRUE /\ UNCHANGED <<ai, tpc>>
       \/ crashed' = FALSE /\ ai' = ai /\ tpc' = [tpc EXCEPT ![m] = "blocked"]
    /\ UNCHANGED <<envVars, mainVars, lockVars, total_elapsed_time,
                   decVars, result, params, dur, tmp, passes, wiVars, wrkVars, partVars>>

\* lines 319-322: pthread_create of the manager of file i fails; the error
\* is printed, t[i] stays indeterminate, and the loop goes on
MainCreateFails ==
    /\ ~crashed /\ mainPc = "m_create"
    /\ IF mainI + 1 < argc
       THEN mainI' = mainI + 1 /\ mainPc' = "m_trylock"
       ELSE mainI' = 0 /\ mainPc' = "m_join"
    /\ UNCHANGED <<envVars, output_file_name, printed, lockVars, total_elapsed_time,
                   crashed, tpc, decVars, afVars, wiVars, wrkVars, partVars, badJoin>>

\* line 326 for a manager never created: as for the workers
MainJoinUncreated ==
    /\ ~crashed /\ mainPc = "m_join"
    /\ tpc[mainI + 1] = "none"
    /\ badJoin' = TRUE
    /\ \/ /\ crashed' = FALSE
          /\ IF mainI + 1 < argc
             THEN mainI' = mainI + 1 /\ mainPc' = "m_join"
             ELSE mainI' = 0 /\ mainPc' = "m_report"
       \/ crashed' = TRUE /\ UNCHANGED <<mainI, mainPc>>
       \/ crashed' = FALSE /\ mainI' = mainI /\ mainPc' = "m_blocked"
    /\ UNCHANGED <<envVars, output_file_name, printed, lockVars, total_elapsed_time,
                   tpc, decVars, afVars, wiVars, wrkVars, partVars>>

(***************************************************************************)
(* The specifications.                                                     *)
(***************************************************************************)
Next ==
    \/ MainTrylock \/ MainUnlock \/ MainCreate
    \/ MainJoin \/ MainReport
    \/ \E m \in Managers : ReadImageOk(m)
    \/ \E m \in Managers : ReadImageFail(m)
    \/ \E m \in Managers : ReadImageHang(m)
    \/ \E m \in Managers : AfLockA(m)
    \/ \E m \in Managers : AfCreate(m)
    \/ \E m \in Managers : AfUnlockA(m)
    \/ \E m \in Managers : AfJoin(m)
    \/ \E m \in Managers : AfLockC(m)
    \/ \E m \in Managers : AfLoad(m)
    \/ \E m \in Managers : AfStore(m)
    \/ \E m \in Managers : AfUnlockC(m)
    \/ \E m \in Managers : WiOpen(m)
    \/ \E m \in Managers : WiWrite(m)
    \/ \E m \in Managers : WiWriteNull(m)
    \/ \E m \in Managers : MgrFree(m)
    \/ \E m \in Managers : \E k \in Workers : WorkerStep(m, k)
    \/ \E m \in Managers : \E k \in Workers : WorkerReturn(m, k)

\* a batch of up to MaxArgc files
Spec == Init /\ [][Next]_vars

\* one file, from the larger set of images
SpecPass == InitPass /\ [][Next]_vars

\* the scheduler keeps running a thread that can take a step.  No thread of
\* the model takes steps for ever, so a behaviour fair in this sense ends in
\* a state where no thread can step, and is fair to every single thread.
Fairness == WF_vars(Next)

\* a batch in which any pthread_create may fail
NextCreate ==
    \/ Next
    \/ MainCreateFails \/ MainJoinUncreated
    \/ \E m \in Managers : AfCreateFails(m)
    \/ \E m \in Managers : AfJoinUncreated(m)

SpecCreate == Init /\ [][NextCreate]_vars

\* a batch under fair scheduling
FairSpec == Init /\ [][Next]_vars /\ Fairness

(***************************************************************************)
(* SpecPartition: the row partition of apply_filters for the program's     *)
(* LAPLACIAN_THREADS workers, one iteration of lines 122-138 at a time.    *)
(***************************************************************************)
InitPartition ==
    /\ InitProgram(0, {}, LAPLACIAN_THREADS)
    /\ ph \in 1..MaxPartHeight
    /\ pi = 0
    /\ pparams = <<>>

PartitionStep ==
    /\ pi < LAPLACIAN_THREADS
    /\ pparams' = Append(pparams, MakeParam(ph, LAPLACIAN_THREADS, pi))
    /\ pi' = pi + 1
    /\ UNCHANGED <<envVars, mainVars, lockVars, total_elapsed_time, crashed, tpc,
                   decVars, afVars, wiVars, wrkVars, ph, badJoin>>

NextPartition == PartitionStep

SpecPartition == InitPartition /\ [][NextPartition]_vars

(***************************************************************************)
(* Positions of a manager thread.                                          *)
(***************************************************************************)
\* apply_filters has left its join loop
PastJoin(m) ==
    tpc[m] \in {"af_lock_c", "af_load", "af_store", "af_unlock_c",
                "wi_open", "wi_write", "free", "done"}

\* apply_filters has left its create loop
PastCreate(m) == tpc[m] = "af_join" \/ PastJoin(m)

\* the store of line 157 has been done
PastStore(m) == tpc[m] \in {"af_unlock_c", "wi_open", "wi_write", "free", "done"}

RECURSIVE SumOver(_, _)
SumOver(f, S) ==
    IF S = {} THEN 0
    ELSE LET e == CHOOSE x \in S : TRUE IN f[e] + SumOver(f, S \ {e})

(***************************************************************************)
(* C1.  For every height H >= 1 and the 23 workers, the partitions built   *)
(* by apply_filters are contiguous (each starts where the one before       *)
(* ends, the first at row 0, the last ends at row H), every size is >= 0,  *)
(* and every row of [0, H) lies in exactly one partition.                  *)
(***************************************************************************)
RowOwners(ps, r) ==
    {i \in 1..Len(ps) : ps[i].start <= r /\ r < ps[i].start + ps[i].size}

C1_PartitionCoversRows ==
    pi = LAPLACIAN_THREADS =>
        /\ Len(pparams) = LAPLACIAN_THREADS
        /\ pparams[1].start = 0
        /\ \A i \in 1..(LAPLACIAN_THREADS - 1) :
              pparams[i + 1].start = pparams[i].start + pparams[i].size
        /\ pparams[LAPLACIAN_THREADS].start + pparams[LAPLACIAN_THREADS].size = ph
        /\ \A i \in 1..LAPLACIAN_THREADS : pparams[i].size >= 0
        /\ \A r \in 0..(ph - 1) : Cardinality(RowOwners(pparams, r)) = 1

\* a finished partition of an image with fewer rows than workers
C1_Witness ==
    /\ pi = LAPLACIAN_THREADS
    /\ ph < LAPLACIAN_THREADS
    /\ pparams[LAPLACIAN_THREADS].size = ph

(***************************************************************************)
(* C2.  After a filter pass, every result pixel (x, y) holds, per channel, *)
(* the 3x3 weighted sum of the source over the neighbours taken modulo W   *)
(* and H (weight 8 at the centre, -1 elsewhere), clamped to 0..255.        *)
(***************************************************************************)
RefWeight(dx, dy) == IF dx = 0 /\ dy = 0 THEN 8 ELSE -1

RefSum(image, w, h, x, y, c) ==
    SumOver([d \in (-1..1) \X (-1..1) |->
                RefWeight(d[1], d[2]) * image[((y + d[2]) % h) * w + ((x + d[1]) % w)][c]],
            (-1..1) \X (-1..1))

RefClamp(v) == IF v < 0 THEN 0 ELSE IF v > 255 THEN 255 ELSE v

RefImage(image, w, h) ==
    [i \in 0..(w * h - 1) |->
        [c \in 1..3 |-> RefClamp(RefSum(image, w, h, i % w, i \div w, c))]]

C2_PassEqualsReference ==
    \A m \in Managers :
        PastJoin(m) => result[m] = RefImage(img[m], width[m], height[m])

\* a finished pass over an image of at least 3 x 3 with clamped and
\* unclamped values in its result
C2_Witness ==
    \E m \in Managers :
        /\ tpc[m] = "done"
        /\ width[m] >= 3 /\ height[m] >= 3
        /\ \E i, j, l \in DOMAIN result[m] :
              /\ result[m][i][2] \notin {0, 255}
              /\ result[m][j][1] = 255
              /\ result[m][l][1] = 0

(***************************************************************************)
(* C3.  Every store of a worker goes to a result pixel of a row of its own *)
(* range [start, start + size) and of a column in [0, W), inside the       *)
(* result buffer; a worker with an empty range stores nothing; no result   *)
(* pixel is stored by two different workers; and no step changes the       *)
(* source image once read_image has returned it.                           *)
(***************************************************************************)
C3_StoresInOwnRows ==
    /\ ~badWrite
    /\ \A m \in Managers : \A idx \in DOMAIN writes[m] :
          /\ \A j \in 1..Len(writes[m][idx]) :
                LET e == writes[m][idx][j]
                IN  /\ params[m][e.k].start <= e.y
                    /\ e.y < params[m][e.k].start + params[m][e.k].size
                    /\ 0 <= e.x /\ e.x < width[m]
                    /\ idx = e.y * width[m] + e.x
          /\ Cardinality({writes[m][idx][j].k : j \in 1..Len(writes[m][idx])}) <= 1

C3_SourceKept ==
    \A m \in Managers : tpc[m] \notin {"none", "read"} => img'[m] = img[m]

C3_WorkersWriteOwnRowsOnly == [](C3_StoresInOwnRows) /\ [][C3_SourceKept]_vars

\* a finished pass over one row with two workers: the worker with the empty
\* range has returned and the other has stored the row
C3_Witness ==
    \E m \in Managers : \E k \in Workers :
        /\ PastJoin(m)
        /\ params[m][k].size = 0 /\ wpc[m][k] = "done"
        /\ \A idx \in DOMAIN writes[m] : Len(writes[m][idx]) = 1

(***************************************************************************)
(* C4.  The load and the store of total_elapsed_time are done holding      *)
(* mutex_c, hence by one manager at a time; the total is always the sum of *)
(* the elapsed times of the passes whose store is done, so that when all   *)
(* managers have ended it is the sum over all passes that ran, at least    *)
(* every single elapsed time and at least 0; main prints that value.       *)
(***************************************************************************)
InUpdate(m) == tpc[m] \in {"af_load", "af_store", "af_unlock_c"}

C4_TotalIsSumUnderMutex ==
    /\ \A m \in Managers : InUpdate(m) => mutex_c = {m}
    /\ Cardinality({m \in Managers : InUpdate(m)}) <= 1
    /\ total_elapsed_time = SumOver(dur, {m \in Managers : PastStore(m)})
    /\ (\A m \in Managers : Ended(m)) =>
          /\ total_elapsed_time = SumOver(dur, {m \in Managers : passes[m] = 1})
          /\ \A m \in Managers : passes[m] = 1 => total_elapsed_time >= dur[m]
          /\ total_elapsed_time >= 0
    /\ printed # <<>> => printed = <<SumOver(dur, {m \in Managers : passes[m] = 1})>>

\* two passes of one tick each have ended and the total is two ticks
C4_Witness ==
    /\ argc >= 2
    /\ \A m \in Managers : tpc[m] = "done" /\ dur[m] = 1
    /\ total_elapsed_time = argc

(***************************************************************************)
(* C5.  A manager whose input cannot be decoded (open failure, wrong       *)
(* marker, unparsable size, max value other than 255) ends in read_image:  *)
(* it starts no worker, completes no pass, opens and writes no output.  A  *)
(* manager of the same batch that returned from manage_image_file has      *)
(* decoded its input, run its pass and, its output opened, left in it the  *)
(* encoding of its result.  And under fair scheduling, in a batch whose    *)
(* outputs can be opened, every manager whose input decodes does return,   *)
(* with its output written, whatever happens to the other inputs.          *)
(***************************************************************************)
C5_FailedTaskDoesNothing ==
    \A m \in Managers :
        /\ (tpc[m] \notin {"none", "read"} /\ ReadImage(files[m]).status \in DecodeErrors)
              => derr[m] = ReadImage(files[m]).status
        /\ derr[m] # "none" =>
              /\ tpc[m] = "exited"
              /\ passes[m] = 0
              /\ \A k \in Workers : wpc[m][k] = "none"
              /\ fp[m] = "unset"
              /\ outfile[m] = NoFile
        /\ tpc[m] = "done" =>
              /\ ReadImage(files[m]).status = "ok"
              /\ derr[m] = "none"
              /\ passes[m] = 1
              /\ outOpen[m] =>
                    outfile[m] = OnDisk(WriteImageBytes(
                                    RefImage(img[m], width[m], height[m]),
                                    width[m], height[m]))

C5_DecodedAllProduced ==
    \A m \in Managers :
        ReadImage(files[m]).status = "ok" =>
            tpc[m] = "done" /\ passes[m] = 1 /\ outfile[m].exists

C5_DecodeFailureIsLocal ==
    /\ [](C5_FailedTaskDoesNothing)
    /\ (\A m \in Managers : outOpen[m]) => <>C5_DecodedAllProduced

\* a batch with an input of bad marker and an input that decodes: the
\* manager of the second has written its output, main has printed the total
C5_Witness ==
    /\ argc >= 2
    /\ \E m \in Managers : derr[m] = "FormatError"
    /\ \E m \in Managers : tpc[m] = "done" /\ outfile[m].exists
    /\ printed # <<>>

(***************************************************************************)
(* C6.  When the output file cannot be opened, write_image passes nothing  *)
(* to the stdio calls through the null handle, the process goes on, and    *)
(* write_image returns to the manager.                                     *)
(***************************************************************************)
C6_OpenFailureSkipsEncoding ==
    \A m \in Managers :
        fp[m] = "NULL" => /\ ~nullUse[m]
                          /\ ~crashed

(***************************************************************************)
(* C7.  A worker thread is started only for a partition with               *)
(* row_count > 0, so the workers started for an image are at most H.       *)
(***************************************************************************)
Started(m) == {k \in Workers : wpc[m][k] # "none"}

C7_OnlyNonEmptyStarted ==
    \A m \in Managers :
        /\ \A k \in Started(m) : params[m][k].size > 0
        /\ Cardinality(Started(m)) <= height[m]

\* what apply_filters does: after its create loop every worker is started,
\* whatever its range; the workers with a non-empty range are at most H and
\* only they store anything
C7_EveryPartitionStarted ==
    \A m \in Managers :
        PastCreate(m) =>
            /\ Started(m) = Workers
            /\ Cardinality({k \in Workers : params[m][k].size > 0}) <= height[m]
            /\ \A idx \in DOMAIN writes[m] : \A j \in 1..Len(writes[m][idx]) :
                  params[m][writes[m][idx][j].k].size > 0

(***************************************************************************)
(* C8.  main prints the total only when every manager of the batch has     *)
(* ended (returned, or left by pthread_exit on a decode failure); what it  *)
(* prints is the total; after that no step changes the total, an output    *)
(* file or a manager's position.                                           *)
(***************************************************************************)
C8_ReportedState ==
    (mainPc \in {"m_report", "m_done"} \/ printed # <<>>) =>
        /\ \A m \in Managers : Ended(m)
        /\ printed \in {<<>>, <<total_elapsed_time>>}

C8_NothingAfter ==
    printed # <<>> =>
        /\ total_elapsed_time' = total_elapsed_time
        /\ outfile' = outfile
        /\ tpc' = tpc

C8_ReportAfterAllManagers == [](C8_ReportedState) /\ [][C8_NothingAfter]_vars

\* main has printed the total of a batch of several files, one of which
\* failed to decode
C8_Witness ==
    /\ argc >= 2
    /\ printed # <<>>
    /\ \E m \in Managers : tpc[m] = "exited"
    /\ \E m \in Managers : tpc[m] = "done"

AllEnded ==
    /\ printed # <<>>
    /\ \A m \in Managers : Ended(m) /\ \A k \in Workers : wpc[m][k] # "run"

C10_BatchTerminates == <>AllEnded

\* the same, for the batches none of whose files ends inside its header and
\* all of whose outputs can be opened: the joins and the mutexes do not block
LoopFreeBatch ==
    \A m \in Managers : ReadImage(files[m]).status # "Hang" /\ outOpen[m]

TerminatesWhenLoopFree == LoopFreeBatch => <>AllEnded

(***************************************************************************)
(* C11.  The pass over an image whose pixels all have the same colour      *)
(* leaves (0, 0, 0) at every pixel of the result, whatever the size and    *)
(* the colour, also when the image has fewer rows than the pass workers.   *)
(***************************************************************************)
IsUniform(image) == \A i, j \in DOMAIN image : image[i] = image[j]

C11_UniformGivesZero ==
    \A m \in Managers :
        (PastJoin(m) /\ IsUniform(img[m])) =>
            \A idx \in DOMAIN result[m] : result[m][idx] = <<0, 0, 0>>

\* a finished pass over a uniform image of several columns and fewer rows
\* than workers, of a colour with non-zero channels
C11_Witness ==
    \E m \in Managers :
        /\ tpc[m] = "done"
        /\ width[m] >= 2 /\ height[m] < nthreads
        /\ IsUniform(img[m])
        /\ \E c \in 1..3 : img[m][0][c] = RGB_COMPONENT_COLOR
        /\ \A idx \in DOMAIN result[m] : result[m][idx] = <<0, 0, 0>>

(***************************************************************************)
(* C12.  For the pixel (x, y) a worker is about to compute, which is in a  *)
(* row of its range and a column of [0, W), each of the nine source        *)
(* coordinates lies in [0, W) x [0, H), equals ((x + dx) mod W,            *)
(* (y + dy) mod H) for dx, dy in -1..1, and indexes a pixel of the source  *)
(* buffer; so pixel (0, 0) reads column W - 1 and row H - 1.               *)
(***************************************************************************)
C12_ReadsWrapInBounds ==
    \A m \in Managers : \A k \in Workers :
        (wpc[m][k] = "run" /\ WorkerHasPixel(m, k)) =>
            /\ wx[m][k] \in 0..(width[m] - 1)
            /\ params[m][k].start <= wy[m][k]
            /\ wy[m][k] < params[m][k].start + params[m][k].size
            /\ \A fw \in 0..(FILTER_WIDTH - 1) : \A fh \in 0..(FILTER_HEIGHT - 1) :
                  LET xc == XCoordinate(wx[m][k], fw, width[m])
                      yc == YCoordinate(wy[m][k], fh, height[m])
                  IN  /\ xc \in 0..(width[m] - 1)
                      /\ yc \in 0..(height[m] - 1)
                      /\ xc = (wx[m][k] + (fw - 1)) % width[m]
                      /\ yc = (wy[m][k] + (fh - 1)) % height[m]
                      /\ (wx[m][k] = 0 /\ fw = 0) => xc = width[m] - 1
                      /\ (wy[m][k] = 0 /\ fh = 0) => yc = height[m] - 1
                      /\ (yc * width[m] + xc) \in DOMAIN img[m]

\* pixel (0, 0) of an image of at least 3 x 3 has been stored; the image is
\* of one colour but for its last pixel (W - 1, H - 1), and the stored value
\* is not zero: the last pixel was read as a neighbour
C12_Witness ==
    \E m \in Managers : \E c \in Palette :
        /\ width[m] >= 3 /\ height[m] >= 3
        /\ img[m] = Spot(width[m], height[m], c, width[m] * height[m] - 1)
        /\ writes[m][0] # <<>>
        /\ result[m][0] # <<0, 0, 0>>

(***************************************************************************)
(* C13.  For every stored result channel, the accumulator of the nine      *)
(* products is within 8 * 255 of zero (well inside the int range), the     *)
(* stored value is 0 when the accumulator is < 0, 255 when it is > 255 and *)
(* the accumulator otherwise, and the truncated value is already in        *)
(* 0..255 before the conversion to unsigned char, which so never wraps.    *)
(***************************************************************************)
C13_StoredValueIsClampedSum ==
    \A m \in Managers : \A idx \in DOMAIN result[m] :
        writes[m][idx] # <<>> =>
            \A c \in 1..3 :
                LET acc == Accumulate(img[m], width[m], height[m],
                                      idx % width[m], idx \div width[m], c)
                IN  /\ acc \in -(8 * RGB_COMPONENT_COLOR)..(8 * RGB_COMPONENT_COLOR)
                    /\ result[m][idx][c] =
                          IF acc < 0 THEN 0 ELSE IF acc > 255 THEN 255 ELSE acc
                    /\ Truncate(acc) \in 0..255

\* a result holding a channel truncated from a sum of 300 or more, one
\* truncated from a sum of -50 or less, and one stored as it was summed
C13_Witness ==
    \E m \in Managers : \E i, j, l \in DOMAIN result[m] : \E c \in 1..3 :
        /\ writes[m][i] # <<>> /\ writes[m][j] # <<>> /\ writes[m][l] # <<>>
        /\ Accumulate(img[m], width[m], height[m], i % width[m], i \div width[m], c) >= 300
        /\ result[m][i][c] = 255
        /\ Accumulate(img[m], width[m], height[m], j % width[m], j \div width[m], c) <= -50
        /\ result[m][j][c] = 0
        /\ Accumulate(img[m], width[m], height[m], l % width[m], l \div width[m], 2)
              \in 1..254
        /\ result[m][l][2] =
              Accumulate(img[m], width[m], height[m], l % width[m], l \div width[m], 2)

(***************************************************************************)
(* C14.  From the creation of the manager of the k-th input on, its        *)
(* output_file_name is "laplacian<k>.ppm" and no step changes it; that is  *)
(* the name write_image opens and the only file the manager writes; the    *)
(* names of two managers of a batch differ.                                *)
(***************************************************************************)
LaplacianName(k) ==
    <<108, 97, 112, 108, 97, 99, 105, 97, 110>> \o Decimal(k) \o <<46, 112, 112, 109>>

C14_NamesInPlace ==
    \A m \in Managers :
        /\ tpc[m] # "none" => output_file_name[m] = LaplacianName(m)
        /\ (fp[m] # "unset" \/ outfile[m].exists) => fname[m] = LaplacianName(m)
        /\ \A j \in Managers :
              (j # m /\ tpc[m] # "none" /\ tpc[j] # "none") =>
                  output_file_name[j] # output_file_name[m]

C14_NameKept ==
    \A m \in Managers :
        tpc[m] # "none" => output_file_name'[m] = output_file_name[m]

C14_OutputNameFixed == [](C14_NamesInPlace) /\ [][C14_NameKept]_vars

\* two managers of a batch have written their outputs, under different names
C14_Witness ==
    /\ argc >= 2
    /\ \A m \in Managers : tpc[m] = "done" /\ outfile[m].exists
    /\ fname[1] = LaplacianName(1) /\ fname[2] = LaplacianName(2)
    /\ fname[1] # fname[2]

(***************************************************************************)
(* C15.  The outputs a run ends with depend on the inputs only, not on the *)
(* interleaving: when the run is over (main has returned, or the process   *)
(* was killed), every input that holds a complete image and whose output   *)
(* can be opened has as output the encoding of the filtered image.         *)
(***************************************************************************)
RunOver == crashed \/ mainPc = "m_done"

CompleteImage(r) == r.status = "ok" /\ r.nread = r.width * r.height

C15_SameOutputsInEveryRun ==
    RunOver =>
        \A m \in Managers :
            (CompleteImage(ReadImage(files[m])) /\ outOpen[m]) =>
                LET r == ReadImage(files[m])
                IN  outfile[m] = OnDisk(WriteImageBytes(
                                    RefImage(r.pixels, r.width, r.height),
                                    r.width, r.height))

(***************************************************************************)
(* C16.  For a file with a valid header for W x H and only k < W * H       *)
(* complete pixels of data, read_image raises no error and returns a       *)
(* buffer of W * H pixels whose first k are the pixels of the file, in     *)
(* order; the manager then runs its pass over that buffer and writes the   *)
(* encoding of the result, as for any image.                               *)
(***************************************************************************)
C16_ShortDataIsFiltered ==
    \A m \in Managers : \A z \in ShortShapes :
        (files[m] = ShortFile(z.w, z.h, z.px, z.extra) /\ tpc[m] \notin {"none", "read"}) =>
            /\ tpc[m] \notin {"exited", "spin"} /\ derr[m] = "none"
            /\ width[m] = z.w /\ height[m] = z.h
            /\ DOMAIN img[m] = 0..(z.w * z.h - 1)
            /\ \A i \in 0..(Len(z.px) - 1) : img[m][i] = z.px[i + 1]
            /\ PastJoin(m) => result[m] = RefImage(img[m], z.w, z.h)
            /\ tpc[m] = "done" =>
                  /\ passes[m] = 1
                  /\ outOpen[m] =>
                        outfile[m] = OnDisk(WriteImageBytes(RefImage(img[m], z.w, z.h),
                                                            z.w, z.h))

\* the manager of a file with one pixel of the two its header announces has
\* written its output
C16_Witness ==
    \E m \in Managers : \E z \in ShortShapes :
        /\ Len(z.px) = 1 /\ z.w * z.h = 2
        /\ files[m] = ShortFile(z.w, z.h, z.px, z.extra)
        /\ tpc[m] = "done" /\ outfile[m].exists
        /\ img[m][0] = z.px[1]

(***************************************************************************)
(* C17.  read_image of the file write_image produces for an image of       *)
(* W x H pixels (W, H >= 1, max value 255) raises no error and returns W,  *)
(* H and the pixels of that image.                                         *)
(***************************************************************************)
RoundTripImages(w, h) ==
    Images(w, h) \cup (IF w = 1 /\ h = 1 THEN {TextImage} ELSE {})

\* every image im of W x H (W up to MaxW, H up to MaxH) with the file
\* write_image produces for it
Encodings ==
    UNION {{[w |-> w, h |-> h, im |-> im, file |-> OnDisk(WriteImageBytes(im, w, h))] :
              im \in RoundTripImages(w, h)} : w \in 1..MaxW, h \in 1..MaxH}

\* read_image has just ended: by an error, in a loop, or by its return (no
\* later step changes what it returned)
ReadImageOver(m) ==
    tpc[m] \in {"exited", "spin"} \/ (tpc[m] = "af_lock_a" /\ ai[m] = 0)

C17_DecodeOfEncodeIsImage ==
    \A m \in Managers :
        ReadImageOver(m) =>
            \A e \in Encodings :
                files[m] = e.file =>
                    /\ tpc[m] \notin {"exited", "spin"} /\ derr[m] = "none"
                    /\ width[m] = e.w /\ height[m] = e.h
                    /\ img[m] = e.im

\* read_image has returned the checkerboard of 3 x 3 from its encoding
C17_Witness ==
    \E m \in Managers :
        /\ tpc[m] = "af_lock_a" /\ ai[m] = 0
        /\ width[m] = 3 /\ height[m] = 3
        /\ img[m] = Checker(3, 3, ColourA)
        /\ files[m] = OnDisk(WriteImageBytes(img[m], 3, 3))

(***************************************************************************)
(* C18.  read_image ends on every input file: once a manager has started   *)
(* it, the manager has either left by one of the four decode errors or     *)
(* got an image back; it is never inside read_image for ever.              *)
(***************************************************************************)
C18_ReadImageTerminates ==
    \A m \in Managers :
        tpc[m] \notin {"none", "read"} =>
            \/ tpc[m] = "exited" /\ derr[m] \in DecodeErrors
            \/ tpc[m] \notin {"exited", "spin"} /\ derr[m] = "none"

(***************************************************************************)
(* C19.  In every state, main and each manager hold at most one of         *)
(* mutex_a, mutex_b, mutex_c (the workers lock none); a thread about to    *)
(* call pthread_mutex_unlock on a mutex is the thread that holds it, also  *)
(* main after its pthread_mutex_trylock of mutex_b; a thread that has      *)
(* returned or called pthread_exit holds no mutex.                         *)
(***************************************************************************)
HeldBy(t) ==
    (IF t \in mutex_a THEN {"a"} ELSE {}) \cup (IF t \in mutex_b THEN {"b"} ELSE {})
        \cup (IF t \in mutex_c THEN {"c"} ELSE {})

C19_LockDiscipline ==
    /\ \A t \in Managers \cup {MainTid} : Cardinality(HeldBy(t)) <= 1
    /\ mutex_a \cup mutex_c \subseteq Managers
    /\ mutex_b \subseteq {MainTid}
    /\ mainPc = "m_unlock" => mutex_b = {MainTid}
    /\ mainPc = "m_done" => HeldBy(MainTid) = {}
    /\ \A m \in Managers :
          /\ tpc[m] = "af_unlock_a" => mutex_a = {m}
          /\ tpc[m] = "af_unlock_c" => mutex_c = {m}
          /\ Ended(m) => HeldBy(m) = {}

\* main holds mutex_b, naming the second file, while the first manager holds
\* mutex_c
C19_Witness ==
    /\ mutex_b = {MainTid} /\ mainPc = "m_unlock"
    /\ \E m \in Managers : mutex_c = {m} /\ tpc[m] = "af_unlock_c"

(***************************************************************************)
(* C20.  apply_filters and main call pthread_join only with the handles    *)
(* their pthread_create calls have set: no join is made on the t[i] of a   *)
(* thread whose creation failed.                                           *)
(***************************************************************************)
C20_JoinsOnlyCreated == ~badJoin

====
